---- MODULE Spec2Model ----
(***************************************************************************)
(* A model of src/main.py: the ProdSensor GitHub Action.                   *)
(*                                                                         *)
(* One invocation constructs a ProdSensorAction from the process           *)
(* environment and calls run().  run() is sequential; the model cuts it    *)
(* at its blocking points (each HTTP request and the sleep of the poll     *)
(* loop), so that there is one action per request and one for the sleep.   *)
(* What the two remote services answer, how long a call takes and what     *)
(* the event file holds are inputs, drawn with \E from small sets.         *)
(*                                                                         *)
(* Text is modelled as a sequence of phrases (tokens): an f-string is the  *)
(* sequence of its parts, and Python's `needle in text` is Contains.       *)
(***************************************************************************)
EXTENDS Integers, Sequences, FiniteSets, TLC

VARIABLES
    env,          \* os.environ, as read by __init__
    self,         \* the fields of the ProdSensorAction object
    pc,           \* position of run()
    now,          \* time.time(), in seconds
    start_time,   \* wait_for_completion's start_time
    run_id,       \* run()'s local run_id
    result,       \* start_analysis's local result
    status,       \* the status document wait_for_completion read last
    polled,       \* every status document get_status returned, in order
    report,       \* run()'s local report
    verdict,      \* run()'s local verdict
    blocker_count,\* run()'s local blocker_count
    major_count,  \* run()'s local major_count
    comment,      \* the text format_pr_comment returned
    pr_number,    \* post_pr_comment's local pr_number
    delivery,     \* what became of the pull-request comment
    calls,        \* every HTTP request issued, in order
    last_code,    \* status code of the last analysis-API response (0: none)
    outputs,      \* names written by set_output, in order
    exc,          \* the exception run() caught
    exit_code     \* what run() returned

vars == <<env, self, pc, now, start_time, run_id, result, status, polled, report,
          verdict, blocker_count, major_count, comment, pr_number, delivery,
          calls, last_code, outputs, exc, exit_code>>

----------------------------------------------------------------------------
(* Bounds of the model *)

\* the largest INPUT_TIMEOUT explored, in seconds
MaxTimeout == 10
\* the most that passes between two readings of the clock beyond the
\* sleep itself (the request and the overshoot of the sleep), in seconds
MaxDelay == 1
\* the longest findings list of a report
MaxFindings == 1
\* in the reports given to the formatter alone: the most findings that are
\* blockers with a description, and the most findings of any other kind
MaxBlockers == 7
MaxOthers == 2

----------------------------------------------------------------------------
(* Python values *)

\* Python's None (also: an unset environment variable, JSON null)
None == "None"
\* a key that a JSON object does not have
Missing == "Missing"

\* Python truthiness of an optional string
Truthy(v) == v # None /\ v # "" /\ v # Missing

\* dict.get(key, default) on a field that may be missing
Get(v, default) == IF v = Missing THEN default ELSE v

\* Python's `a or b`
Or(a, b) == IF Truthy(a) THEN a ELSE b

\* Python's `needle in text`, on text made of phrases
Contains(text, needle) == \E i \in 1..Len(text) : text[i] = needle

\* sequences over S of length at most n
SeqsUpTo(S, n) == UNION {[1..k -> S] : k \in 0..n}

\* Filter comparing the severity without regard to letter case
RECURSIVE FilterAnyCase(_, _)
FilterAnyCase(s, sev) ==
    IF s = <<>> THEN <<>>
    ELSE IF Head(s).severity = sev \/ (sev = "Blocker" /\ Head(s).severity = "blocker")
         THEN <<Head(s)>> \o FilterAnyCase(Tail(s), sev)
         ELSE FilterAnyCase(Tail(s), sev)

\* [f for f in findings if f.get("severity") == sev]
RECURSIVE Filter(_, _)
Filter(s, sev) ==
    IF s = <<>> THEN <<>>
    ELSE IF Head(s).severity = sev
         THEN <<Head(s)>> \o Filter(Tail(s), sev)
         ELSE Filter(Tail(s), sev)

Min(a, b) == IF a < b THEN a ELSE b

----------------------------------------------------------------------------
(* Exit codes, main.py lines 17-22 *)

EXIT_PRODUCTION_READY == 0
EXIT_NOT_PRODUCTION_READY == 1
EXIT_CONDITIONALLY_READY == 2
EXIT_API_ERROR == 3
EXIT_AUTH_ERROR == 4
EXIT_TIMEOUT == 5

\* run() has not returned
NoExit == EXIT_PRODUCTION_READY - 1

\* wait_for_completion's poll_interval
poll_interval == 5

----------------------------------------------------------------------------
(* Exceptions *)

NoException == [type |-> "NoException", msg |-> <<>>]
Raise(type, msg) == [type |-> type, msg |-> msg]

\* the result of a call: either a value or an exception
Returned(v) == [raised |-> FALSE, exc |-> NoException, value |-> v]
Raised(e, v) == [raised |-> TRUE, exc |-> e, value |-> v]

\* str.lower(), on the values the model uses
Lower(s) == IF s = "True" THEN "true" ELSE s

----------------------------------------------------------------------------
(* The environment and __init__ *)

Environments ==
    [PRODSENSOR_API_KEY : {None, "", "key"},
     INPUT_REPO_URL     : {None, "", "https://git.example/app"},
     INPUT_FAIL_ON      : {None, "never", "blockers"},
     INPUT_COMMENT_ON_PR: {"True", "false"},
     INPUT_TIMEOUT      : {0, MaxTimeout},
     GITHUB_TOKEN       : {None, "token"},
     GITHUB_REPOSITORY  : {None, "octo/app"},
     GITHUB_EVENT_NAME  : {"pull_request", "push"},
     GITHUB_EVENT_PATH  : {"/event.json"}]

\* f"https://github.com/{self.github_repository}"
GithubUrl(repository) ==
    IF repository = "octo/app" THEN "https://github.com/octo/app"
    ELSE "https://github.com/"

\* DetermineRepoUrl deriving the URL only when INPUT_REPO_URL is unset, not
\* when it is empty
DetermineRepoUrlUnsetOnly(repo_url, github_repository) ==
    IF repo_url = None /\ Truthy(github_repository)
    THEN GithubUrl(github_repository)
    ELSE repo_url

\* The determination of repo_url, lines 46-48
DetermineRepoUrl(repo_url, github_repository) ==
    IF ~Truthy(repo_url) /\ Truthy(github_repository)
    THEN GithubUrl(github_repository)
    ELSE repo_url

\* ProdSensorAction.__init__
Construct(e) ==
    [api_key           |-> e.PRODSENSOR_API_KEY,
     repo_url          |-> DetermineRepoUrl(e.INPUT_REPO_URL, e.GITHUB_REPOSITORY),
     fail_on           |-> Get(IF e.INPUT_FAIL_ON = None THEN Missing
                               ELSE e.INPUT_FAIL_ON, "not-ready"),
     comment_on_pr     |-> (Lower(Get(IF e.INPUT_COMMENT_ON_PR = None THEN Missing
                                      ELSE e.INPUT_COMMENT_ON_PR, "true")) = "true"),
     timeout           |-> e.INPUT_TIMEOUT,
     github_token      |-> e.GITHUB_TOKEN,
     github_repository |-> e.GITHUB_REPOSITORY,
     github_event_name |-> e.GITHUB_EVENT_NAME,
     github_event_path |-> e.GITHUB_EVENT_PATH]

----------------------------------------------------------------------------
(* The analysis API, as api_request sees it *)

\* The body of an error response: whether it parses as a JSON object, its
\* "detail" member if it has one, and its raw text.
ErrorPayloads ==
    {[json |-> FALSE, has_detail |-> FALSE, detail |-> <<>>,
      text |-> <<"<html>Bad Gateway</html>">>],
     [json |-> TRUE, has_detail |-> TRUE, detail |-> <<"Internal error">>,
      text |-> <<"{\"detail\": \"", "Internal error", "\"}">>],
     [json |-> TRUE, has_detail |-> TRUE, detail |-> <<"Invalid API key">>,
      text |-> <<"{\"detail\": \"", "Invalid API key", "\"}">>],
     [json |-> TRUE, has_detail |-> FALSE, detail |-> <<>>,
      text |-> <<"{\"error\": \"", "Invalid API key", "\"}">>]}

\* What one request can be answered with: no response at all (code 0: httpx
\* raises a transport error or its 30 s timeout), an error status with one of
\* the payloads, or a status below 400 whose body is one of Docs or is not JSON.
Responses(Docs, anyDoc) ==
    {[code |-> 0, json |-> FALSE, has_detail |-> FALSE, detail |-> <<>>,
      text |-> <<>>, doc |-> anyDoc]}
    \cup {[code |-> c, json |-> p.json, has_detail |-> p.has_detail,
           detail |-> p.detail, text |-> p.text, doc |-> anyDoc] :
            c \in {401, 403, 429, 500}, p \in ErrorPayloads}
    \cup {[code |-> c, json |-> FALSE, has_detail |-> FALSE, detail |-> <<>>,
           text |-> <<"<html>Moved</html>">>, doc |-> anyDoc] : c \in {200, 302}}
    \cup {[code |-> 200, json |-> TRUE, has_detail |-> FALSE, detail |-> <<>>,
           text |-> <<"{...}">>, doc |-> d] : d \in Docs}

\* ProdSensorAction.api_request, given the response the server gives
api_request(response) ==
    IF response.code = 0
    THEN Raised(Raise("Exception", <<"All connection attempts failed">>), response.doc)
    ELSE IF response.code = 401
    THEN Raised(Raise("Exception", <<"Invalid API key">>), response.doc)
    ELSE IF response.code = 429
    THEN Raised(Raise("Exception", <<"Rate limit exceeded">>), response.doc)
    ELSE IF response.code >= 400
    THEN IF ~response.json
         THEN Raised(Raise("Exception", <<"Expecting value">>), response.doc)
         ELSE Raised(Raise("Exception",
                           <<"API error: ">> \o
                           (IF response.has_detail THEN response.detail
                            ELSE response.text)),
                     response.doc)
    ELSE IF ~response.json
         THEN Raised(Raise("Exception", <<"Expecting value">>), response.doc)
         ELSE Returned(response.doc)

\* The documents of the three endpoints
SubmitDocs ==
    {[run_id |-> "run-1", id |-> "run-2"],
     [run_id |-> "", id |-> "run-2"],
     [run_id |-> Missing, id |-> Missing]}

NoResult == [run_id |-> Missing, id |-> Missing]

\* (RUNNING stands for every state in progress: line 140-143 tell COMPLETE
\* and FAILED from all other strings alike)
StatusDocs ==
    {[status |-> s, error |-> Missing] : s \in {"RUNNING", "COMPLETE", Missing}}
    \cup {[status |-> "FAILED", error |-> e] :
            e \in {Missing, "out of memory", "Invalid API key"}}

NoStatus == [status |-> Missing, error |-> Missing]

Verdicts ==
    {"PRODUCTION_READY", "NOT_PRODUCTION_READY", "CONDITIONALLY_READY",
     "UNKNOWN", Missing}

FindingKinds ==
    {[title |-> "No tests", severity |-> "Blocker", description |-> "text"],
     [title |-> "No license", severity |-> "Blocker", description |-> None],
     [title |-> "No lockfile", severity |-> "Major", description |-> "text"]}

ReportDocs == [verdict : Verdicts, findings : SeqsUpTo(FindingKinds, MaxFindings)]

NoReport == [verdict |-> Missing, findings |-> <<>>]

SubmitResponses == Responses(SubmitDocs, NoResult)
StatusResponses == Responses(StatusDocs, NoStatus)
ReportResponses == Responses(ReportDocs, NoReport)

\* RunIdOf reading the key run_id only
RunIdOfOneKey(res) == Get(res.run_id, None)

\* start_analysis, line 118: result.get("run_id") or result.get("id")
RunIdOf(res) == Or(Get(res.run_id, None), Get(res.id, None))

----------------------------------------------------------------------------
(* The report formatter and the notifier's context *)

NoComment ==
    [verdict_emoji |-> None, verdict_text |-> None, blockers |-> 0,
     majors |-> 0, minors |-> 0, section |-> FALSE, listed |-> <<>>,
     has_more |-> FALSE, more |-> 0]

\* format_pr_comment adding the line of the remainder from five blockers on
\* (>= for > at line 215)
format_pr_commentOffByOne(rep, id) ==
    LET v == Get(rep.verdict, "UNKNOWN")
        findings == rep.findings
        blocker_findings == Filter(findings, "Blocker")
        shown == SubSeq(blocker_findings, 1, Min(5, Len(blocker_findings)))
        value ==
            [verdict_emoji |-> IF v = "PRODUCTION_READY" THEN ":white_check_mark:"
                               ELSE IF v = "NOT_PRODUCTION_READY" THEN ":x:"
                               ELSE ":warning:",
             verdict_text |-> IF v = "PRODUCTION_READY" THEN "**PRODUCTION READY**"
                              ELSE IF v = "NOT_PRODUCTION_READY"
                                   THEN "**NOT PRODUCTION READY**"
                              ELSE "**CONDITIONALLY READY**",
             blockers |-> Len(Filter(findings, "Blocker")),
             majors |-> Len(Filter(findings, "Major")),
             minors |-> Len(Filter(findings, "Minor")),
             section |-> blocker_findings # <<>>,
             listed |-> shown,
             has_more |-> Len(blocker_findings) >= 5,
             more |-> IF Len(blocker_findings) >= 5
                      THEN Len(blocker_findings) - 5 ELSE 0]
    IN  IF \E i \in 1..Len(shown) : shown[i].description = None
        THEN Raised(Raise("Exception", <<"'NoneType' object is not subscriptable">>),
                    NoComment)
        ELSE Returned(value)

\* ProdSensorAction.format_pr_comment.  The comment is kept as its parts: the
\* verdict badge and text, the three counts of the summary table, whether
\* the blockers section is there, the findings it lists, whether the line
\* "...and N more blockers" is there and the N it names.  Slicing the
\* description of a listed blocker raises TypeError when it is null.
format_pr_comment(rep, id) ==
    LET v == Get(rep.verdict, "UNKNOWN")
        findings == rep.findings
        blocker_findings == Filter(findings, "Blocker")
        shown == SubSeq(blocker_findings, 1, Min(5, Len(blocker_findings)))
        value ==
            [verdict_emoji |-> IF v = "PRODUCTION_READY" THEN ":white_check_mark:"
                               ELSE IF v = "NOT_PRODUCTION_READY" THEN ":x:"
                               ELSE ":warning:",
             verdict_text |-> IF v = "PRODUCTION_READY" THEN "**PRODUCTION READY**"
                              ELSE IF v = "NOT_PRODUCTION_READY"
                                   THEN "**NOT PRODUCTION READY**"
                              ELSE "**CONDITIONALLY READY**",
             blockers |-> Len(Filter(findings, "Blocker")),
             majors |-> Len(Filter(findings, "Major")),
             minors |-> Len(Filter(findings, "Minor")),
             section |-> blocker_findings # <<>>,
             listed |-> shown,
             has_more |-> Len(blocker_findings) > 5,
             more |-> IF Len(blocker_findings) > 5
                      THEN Len(blocker_findings) - 5 ELSE 0]
    IN  IF \E i \in 1..Len(shown) : shown[i].description = None
        THEN Raised(Raise("Exception", <<"'NoneType' object is not subscriptable">>),
                    NoComment)
        ELSE Returned(value)

\* What the event file can hold: nothing readable, or an event whose
\* pull_request.number is absent or is 7.
EventFiles ==
    {[readable |-> FALSE, number |-> None],
     [readable |-> TRUE, number |-> None],
     [readable |-> TRUE, number |-> "7"]}

\* get_pr_number reading the number whatever the event is
get_pr_numberAnyEvent(this, event) ==
    IF ~Truthy(this.github_event_path) THEN None
    ELSE IF ~event.readable THEN None
    ELSE event.number

\* ProdSensorAction.get_pr_number, given the content of the event file
get_pr_number(this, event) ==
    IF ~Truthy(this.github_event_path) THEN None
    ELSE IF ~event.readable THEN None
    ELSE IF this.github_event_name = "pull_request" THEN event.number
    ELSE IF this.github_event_name = "pull_request_target" THEN event.number
    ELSE None

----------------------------------------------------------------------------
(* The two ends of run() *)

\* ClassifyExit with the test of line 313 off by one (blocker_count >= 0)
ClassifyExitOffByOne(fail_on, v, blockers) ==
    IF fail_on = "never" THEN EXIT_PRODUCTION_READY
    ELSE IF fail_on = "blockers"
    THEN IF blockers >= 0 THEN EXIT_NOT_PRODUCTION_READY ELSE EXIT_PRODUCTION_READY
    ELSE IF v = "PRODUCTION_READY" THEN EXIT_PRODUCTION_READY
    ELSE IF v = "CONDITIONALLY_READY" THEN EXIT_CONDITIONALLY_READY
    ELSE EXIT_NOT_PRODUCTION_READY

\* run(), lines 309-325: the exit code of a run whose report was fetched
ClassifyExit(fail_on, v, blockers) ==
    IF fail_on = "never" THEN EXIT_PRODUCTION_READY
    ELSE IF fail_on = "blockers"
    THEN IF blockers > 0 THEN EXIT_NOT_PRODUCTION_READY ELSE EXIT_PRODUCTION_READY
    ELSE IF v = "PRODUCTION_READY" THEN EXIT_PRODUCTION_READY
    ELSE IF v = "CONDITIONALLY_READY" THEN EXIT_CONDITIONALLY_READY
    ELSE EXIT_NOT_PRODUCTION_READY

\* ValidateInputs testing the key against None only, so that an empty key
\* passes
ValidateInputsNoneOnly(this) ==
    IF this.api_key = None THEN EXIT_AUTH_ERROR
    ELSE IF ~Truthy(this.repo_url) THEN EXIT_API_ERROR
    ELSE NoExit

\* run(), lines 254-261: the exit code the validation of the inputs returns,
\* or NoExit when it lets the run go on
ValidateInputs(this) ==
    IF ~Truthy(this.api_key) THEN EXIT_AUTH_ERROR
    ELSE IF ~Truthy(this.repo_url) THEN EXIT_API_ERROR
    ELSE NoExit

\* TimedOut granting one more interval past the deadline
TimedOutLate(elapsed, timeout) == elapsed > timeout + poll_interval

\* wait_for_completion, lines 134-136: the deadline test
TimedOut(elapsed, timeout) == elapsed > timeout

\* TimeoutErrorOf raising a plain Exception in place of TimeoutError
TimeoutAsPlainException(timeout) ==
    Raise("Exception", <<"Analysis timed out after ", ToString(timeout), "s">>)

\* wait_for_completion, line 136: the exception of the deadline
TimeoutErrorOf(timeout) ==
    Raise("TimeoutError", <<"Analysis timed out after ", ToString(timeout), "s">>)

\* StatusOutcome with the state of line 140 misspelt, so that a COMPLETE
\* status is taken for one more state in progress
StatusOutcomeMisspelt(doc) ==
    IF doc.status = Missing THEN "KeyError"
    ELSE IF doc.status = "COMPLETED" THEN "return"
    ELSE IF doc.status = "FAILED" THEN "raise"
    ELSE "sleep"

\* StatusOutcome without the branch of line 142, so that a FAILED status
\* counts as the end of the run like COMPLETE
StatusOutcomeFailedReturns(doc) ==
    IF doc.status = Missing THEN "KeyError"
    ELSE IF doc.status = "COMPLETE" THEN "return"
    ELSE IF doc.status = "FAILED" THEN "return"
    ELSE "sleep"

\* wait_for_completion, lines 140-149: what the loop does with a status
\* document: return it, raise, or sleep and poll again
StatusOutcome(doc) ==
    IF doc.status = Missing THEN "KeyError"
    ELSE IF doc.status = "COMPLETE" THEN "return"
    ELSE IF doc.status = "FAILED" THEN "raise"
    ELSE "sleep"

\* wait_for_completion, line 143: the exception of a FAILED run
AnalysisFailed(doc) ==
    Raise("Exception", <<"Analysis failed: ", Get(doc.error, "Unknown error")>>)

\* What the commenting API can answer: a status code, or nothing (0: httpx raises)
CommentAnswers == {0, 201, 403, 500}

\* post_pr_comment without the try of line 233: a transport error escapes
post_pr_commentUnguarded(answer) ==
    IF answer = 0
    THEN Raised(Raise("Exception", <<"All connection attempts failed">>), "exception")
    ELSE IF answer # 201 THEN Returned("failed")
    ELSE Returned("posted")

\* post_pr_comment, lines 233-250: the request and what is made of its
\* answer; the value is what became of the comment
post_pr_comment(answer) ==
    IF answer = 0 THEN Returned("exception")
    ELSE IF answer # 201 THEN Returned("failed")
    ELSE Returned("posted")

\* ExceptExit letting the policy `never` turn every error into success
ExceptExitNeverPasses(e) ==
    IF self.fail_on = "never" THEN EXIT_PRODUCTION_READY
    ELSE IF e.type = "TimeoutError" THEN EXIT_TIMEOUT
    ELSE IF Contains(e.msg, "Invalid API key") THEN EXIT_AUTH_ERROR
    ELSE EXIT_API_ERROR

\* run(), lines 327-334: the exit code of a run that raised e
ExceptExit(e) ==
    IF e.type = "TimeoutError" THEN EXIT_TIMEOUT
    ELSE IF Contains(e.msg, "Invalid API key") THEN EXIT_AUTH_ERROR
    ELSE EXIT_API_ERROR

----------------------------------------------------------------------------
(* The state machine *)

Init ==
    /\ env \in Environments
    /\ self = Construct(env)
    /\ pc = "run"
    /\ now = 0
    /\ start_time = 0
    /\ run_id = None
    /\ result = NoResult
    /\ status = NoStatus
    /\ polled = <<>>
    /\ report = NoReport
    /\ verdict = None
    /\ blocker_count = 0
    /\ major_count = 0
    /\ comment = NoComment
    /\ pr_number = None
    /\ delivery = "none"
    /\ calls = <<>>
    /\ last_code = 0
    /\ outputs = <<>>
    /\ exc = NoException
    /\ exit_code = NoExit

\* a request to the analysis API
AnalysisCall(method, path, json) ==
    [api |-> "analysis", method |-> method, path |-> path, json |-> json]

\* the request to the commenting API, lines 235-242
CommentCall(repository, number) ==
    [api |-> "github", method |-> "POST",
     path |-> <<"https://api.github.com/repos/", repository, "/issues/",
                number, "/comments">>,
     json |-> "comment"]

\* run() returns code, having caught e (NoException: none)
Return(code, e) ==
    /\ pc' = "done"
    /\ exit_code' = code
    /\ exc' = e

\* Except submitting again when the service throttled the request
ExceptRetryThrottled(e) ==
    IF e.msg = <<"Rate limit exceeded">>
    THEN pc' = "start_analysis" /\ exc' = e /\ UNCHANGED exit_code
    ELSE Return(ExceptExit(e), e)

\* Except with the first clause only: an exception that is no TimeoutError
\* leaves run() uncaught, and run() returns no code
ExceptTimeoutOnly(e) ==
    IF e.type = "TimeoutError" THEN Return(EXIT_TIMEOUT, e)
    ELSE Return(NoExit, e)

\* run(), lines 327-334: the two except clauses catch e and return its code
Except(e) == Return(ExceptExit(e), e)

\* run(), lines 254-261: the validation of the inputs
Validate ==
    /\ pc = "run"
    /\ IF ValidateInputs(self) # NoExit
       THEN Return(ValidateInputs(self), NoException)
       ELSE pc' = "start_analysis" /\ UNCHANGED <<exit_code, exc>>
    /\ UNCHANGED <<env, self, now, start_time, run_id, result, status, polled,
                   report, verdict, blocker_count, major_count, comment,
                   pr_number, delivery, calls, last_code, outputs>>

\* StartAnalysis writing the run-id output before the submission is known
\* to have succeeded
StartAnalysisOutputFirst ==
    /\ pc = "start_analysis"
    /\ \E response \in SubmitResponses :
         LET r == api_request(response) IN
         /\ calls' = Append(calls, AnalysisCall("POST", <<"/v1/analyze/repo">>,
                                                self.repo_url))
         /\ last_code' = response.code
         /\ outputs' = Append(outputs, "run-id")
         /\ IF r.raised
            THEN /\ Except(r.exc)
                 /\ UNCHANGED <<result, run_id, start_time>>
            ELSE /\ result' = r.value
                 /\ run_id' = RunIdOf(r.value)
                 /\ start_time' = now
                 /\ pc' = "get_status"
                 /\ UNCHANGED <<exit_code, exc>>
    /\ UNCHANGED <<env, self, now, status, polled, report, verdict,
                   blocker_count, major_count, comment, pr_number, delivery>>

\* run(), lines 263-273: start_analysis, the run-id output, and the entry
\* of wait_for_completion (line 130)
StartAnalysis ==
    /\ pc = "start_analysis"
    /\ \E response \in SubmitResponses :
         LET r == api_request(response) IN
         /\ calls' = Append(calls, AnalysisCall("POST", <<"/v1/analyze/repo">>,
                                                self.repo_url))
         /\ last_code' = response.code
         /\ IF r.raised
            THEN /\ Except(r.exc)
                 /\ UNCHANGED <<result, run_id, outputs, start_time>>
            ELSE /\ result' = r.value
                 /\ run_id' = RunIdOf(r.value)
                 /\ outputs' = Append(outputs, "run-id")
                 /\ start_time' = now
                 /\ pc' = "get_status"
                 /\ UNCHANGED <<exit_code, exc>>
    /\ UNCHANGED <<env, self, now, status, polled, report, verdict,
                   blocker_count, major_count, comment, pr_number, delivery>>

\* wait_for_completion, lines 133-147: one turn of the loop up to the sleep
GetStatus ==
    /\ pc = "get_status"
    /\ LET elapsed == now - start_time IN
       IF TimedOut(elapsed, self.timeout)
       THEN /\ Except(TimeoutErrorOf(self.timeout))
            /\ UNCHANGED <<status, polled, calls, last_code>>
       ELSE \E response \in StatusResponses :
            LET r == api_request(response)
                outcome == StatusOutcome(r.value)
            IN
            /\ calls' = Append(calls, AnalysisCall("GET", <<"/v1/runs/", run_id>>,
                                                   None))
            /\ last_code' = response.code
            /\ IF r.raised
               THEN /\ Except(r.exc)
                    /\ UNCHANGED <<status, polled>>
               ELSE /\ status' = r.value
                    /\ polled' = Append(polled, r.value)
                    /\ IF outcome = "KeyError"
                       THEN Except(Raise("Exception", <<"'status'">>))
                       ELSE IF outcome = "return"
                       THEN pc' = "get_report" /\ UNCHANGED <<exit_code, exc>>
                       ELSE IF outcome = "raise"
                       THEN Except(AnalysisFailed(r.value))
                       ELSE pc' = "sleep" /\ UNCHANGED <<exit_code, exc>>
    /\ UNCHANGED <<env, self, now, start_time, run_id, result, report, verdict,
                   blocker_count, major_count, comment, pr_number, delivery,
                   outputs>>

\* wait_for_completion, line 149: time.sleep(poll_interval).  The clock is
\* read only at the top of the loop (line 134), so the time the status
\* request took is counted here, with the overshoot of the sleep.
Sleep ==
    /\ pc = "sleep"
    /\ \E d \in 0..MaxDelay : now' = now + poll_interval + d
    /\ pc' = "get_status"
    /\ UNCHANGED <<env, self, start_time, run_id, result, status, polled, report,
                   verdict, blocker_count, major_count, comment, pr_number,
                   delivery, calls, last_code, outputs, exit_code, exc>>

\* run(), lines 276-325, up to the request of post_pr_comment (line 235):
\* get_report, the outputs, format_pr_comment and the two early returns of
\* post_pr_comment; when no comment is to be sent, the exit code as well
GetReport ==
    /\ pc = "get_report"
    /\ \E response \in ReportResponses, event \in EventFiles :
         LET r == api_request(response)
             v == Get(r.value.verdict, "UNKNOWN")
             blockers == Len(Filter(r.value.findings, "Blocker"))
             majors == Len(Filter(r.value.findings, "Major"))
             text == format_pr_comment(r.value, run_id)
             number == get_pr_number(self, event)
         IN
         /\ calls' = Append(calls, AnalysisCall("GET", <<"/v1/runs/", run_id,
                                                         "/report.json">>, None))
         /\ last_code' = response.code
         /\ IF r.raised
            THEN /\ Except(r.exc)
                 /\ UNCHANGED <<report, verdict, blocker_count, major_count,
                                outputs, comment, pr_number, delivery>>
            ELSE /\ report' = r.value
                 /\ verdict' = v
                 /\ blocker_count' = blockers
                 /\ major_count' = majors
                 /\ outputs' = outputs \o <<"verdict", "score", "report-url",
                                            "blocker-count", "major-count">>
                 /\ IF ~self.comment_on_pr
                    THEN /\ delivery' = "disabled"
                         /\ Return(ClassifyExit(self.fail_on, v, blockers), NoException)
                         /\ UNCHANGED <<comment, pr_number>>
                    ELSE IF text.raised
                    THEN /\ Except(text.exc)
                         /\ UNCHANGED <<comment, pr_number, delivery>>
                    ELSE /\ comment' = text.value
                         /\ pr_number' = number
                         /\ IF ~Truthy(number)
                            THEN /\ delivery' = "not a PR"
                                 /\ Return(ClassifyExit(self.fail_on, v, blockers),
                                           NoException)
                            ELSE IF ~Truthy(self.github_token)
                            THEN /\ delivery' = "no token"
                                 /\ Return(ClassifyExit(self.fail_on, v, blockers),
                                           NoException)
                            ELSE /\ delivery' = "pending"
                                 /\ pc' = "post_pr_comment"
                                 /\ UNCHANGED <<exit_code, exc>>
    /\ UNCHANGED <<env, self, now, start_time, run_id, result, status, polled>>

\* post_pr_comment, lines 233-250, and then run(), lines 309-325
PostComment ==
    /\ pc = "post_pr_comment"
    /\ \E answer \in CommentAnswers :
         LET r == post_pr_comment(answer) IN
         /\ calls' = Append(calls, CommentCall(self.github_repository, pr_number))
         /\ IF r.raised
            THEN Except(r.exc) /\ UNCHANGED delivery
            ELSE /\ delivery' = r.value
                 /\ Return(ClassifyExit(self.fail_on, verdict, blocker_count),
                           NoException)
    /\ UNCHANGED <<env, self, now, start_time, run_id, result, status, polled,
                   report, verdict, blocker_count, major_count, comment,
                   pr_number, last_code, outputs>>

Next ==
    \/ Validate
    \/ StartAnalysis
    \/ GetStatus
    \/ Sleep
    \/ GetReport
    \/ PostComment

Spec == Init /\ [][Next]_vars

\* run() is one thread: a step that can be taken is taken
FairSpec == Spec /\ WF_vars(Next)

----------------------------------------------------------------------------
(* The formatter alone, on longer reports *)

\* A finding that is a blocker with a description, and the other kinds: the
\* other severities, one in another letter case, one the formatter does not
\* know, and a blocker whose description is null
PlainBlocker == [severity |-> "Blocker", description |-> "text"]
OtherKinds ==
    {[severity |-> "Major", description |-> "text"],
     [severity |-> "Minor", description |-> "text"],
     [severity |-> "Info", description |-> "text"],
     [severity |-> "blocker", description |-> "text"],
     [severity |-> "Blocker", description |-> None]}

\* the finding of kind k at the end of list l; its title is its position
Titled(l, k) ==
    [title |-> ToString(Len(l) + 1), severity |-> k.severity,
     description |-> k.description]

\* how many findings of list l are plain blockers, and how many are not
PlainBlockersIn(l) == Cardinality({i \in DOMAIN l : l[i].description = "text"
                                                     /\ l[i].severity = "Blocker"})
OthersIn(l) == Len(l) - PlainBlockersIn(l)

\* the findings lists of length at most n with at most MaxBlockers plain
\* blockers and at most MaxOthers other findings
RECURSIVE FindingLists(_)
FindingLists(n) ==
    IF n = 0 THEN {<<>>}
    ELSE LET shorter == FindingLists(n - 1) IN
         shorter
         \cup {Append(l, Titled(l, PlainBlocker)) :
                 l \in {x \in shorter : PlainBlockersIn(x) < MaxBlockers}}
         \cup {Append(l, Titled(l, k)) :
                 l \in {x \in shorter : OthersIn(x) < MaxOthers}, k \in OtherKinds}

FormatReports ==
    [verdict : {"PRODUCTION_READY"},
     findings : FindingLists(MaxBlockers + MaxOthers)]

\* a run with comment-on-pr on, at the moment get_report has returned
FormatInit ==
    /\ env = [PRODSENSOR_API_KEY |-> "key",
              INPUT_REPO_URL |-> "https://git.example/app",
              INPUT_FAIL_ON |-> None,
              INPUT_COMMENT_ON_PR |-> "True",
              INPUT_TIMEOUT |-> 0,
              GITHUB_TOKEN |-> "token",
              GITHUB_REPOSITORY |-> "octo/app",
              GITHUB_EVENT_NAME |-> "pull_request",
              GITHUB_EVENT_PATH |-> "/event.json"]
    /\ self = Construct(env)
    /\ pc = "extract"
    /\ now = 0
    /\ start_time = 0
    /\ run_id = "run-1"
    /\ result = [run_id |-> "run-1", id |-> Missing]
    /\ status = [status |-> "COMPLETE", error |-> Missing]
    /\ polled = <<status>>
    /\ report \in FormatReports
    /\ verdict = None
    /\ blocker_count = 0
    /\ major_count = 0
    /\ comment = NoComment
    /\ pr_number = None
    /\ delivery = "none"
    /\ calls = <<AnalysisCall("POST", <<"/v1/analyze/repo">>, self.repo_url),
                 AnalysisCall("GET", <<"/v1/runs/", run_id>>, None),
                 AnalysisCall("GET", <<"/v1/runs/", run_id, "/report.json">>, None)>>
    /\ last_code = 200
    /\ outputs = <<"run-id">>
    /\ exc = NoException
    /\ exit_code = NoExit

\* run(), lines 281-306: the extraction of the results, the outputs and
\* format_pr_comment
Format ==
    /\ pc = "extract"
    /\ LET text == format_pr_comment(report, run_id) IN
       /\ verdict' = Get(report.verdict, "UNKNOWN")
       /\ blocker_count' = Len(Filter(report.findings, "Blocker"))
       /\ major_count' = Len(Filter(report.findings, "Major"))
       /\ outputs' = outputs \o <<"verdict", "score", "report-url",
                                  "blocker-count", "major-count">>
       /\ IF text.raised
          THEN Except(text.exc) /\ UNCHANGED comment
          ELSE /\ comment' = text.value
               /\ pc' = "formatted"
               /\ UNCHANGED <<exit_code, exc>>
    /\ UNCHANGED <<env, self, now, start_time, run_id, result, status, polled,
                   report, pr_number, delivery, calls, last_code>>

FormatNext == Format

FormatSpec == FormatInit /\ [][FormatNext]_vars

----------------------------------------------------------------------------
(* What the properties speak of *)

IsSubmit(c) == c.api = "analysis" /\ c.method = "POST"
IsStatusPoll(c) == c.api = "analysis" /\ c.method = "GET" /\ Len(c.path) = 2
IsReportFetch(c) == c.api = "analysis" /\ c.method = "GET" /\ Len(c.path) = 3
IsComment(c) == c.api = "github"

Submits == {i \in DOMAIN calls : IsSubmit(calls[i])}
StatusPolls == {i \in DOMAIN calls : IsStatusPoll(calls[i])}
ReportFetches == {i \in DOMAIN calls : IsReportFetch(calls[i])}

\* the number of findings of the fetched report whose severity is "Blocker"
ReportBlockers ==
    Cardinality({i \in DOMAIN report.findings :
                    report.findings[i].severity = "Blocker"})

\* run() went through lines 309-325
ReachedClassification ==
    pc = "done" /\ exc = NoException /\ delivery # "none"

----------------------------------------------------------------------------
(* Properties *)

\* C1: when run() reaches the exit classification, the exit code is decided
\* by the failure policy, the verdict of the report and its number of
\* blockers: `never` gives 0; `blockers` gives 1 iff there is a blocker and
\* 0 otherwise; `not-ready` gives 0 iff the verdict is PRODUCTION_READY, 2 iff
\* it is CONDITIONALLY_READY and 1 for every other verdict, a missing one
\* included.
C1_ExitCodeTable ==
    ReachedClassification =>
        /\ self.fail_on = "never" => exit_code = 0
        /\ self.fail_on = "blockers" =>
             /\ exit_code \in {0, 1}
             /\ exit_code = 1 <=> ReportBlockers > 0
        /\ self.fail_on = "not-ready" =>
             /\ exit_code \in {0, 1, 2}
             /\ exit_code = 0 <=> report.verdict = "PRODUCTION_READY"
             /\ exit_code = 2 <=> report.verdict = "CONDITIONALLY_READY"

\* a run under policy `blockers` that found a blocker and returned 1
C1_Witness ==
    /\ ReachedClassification
    /\ self.fail_on = "blockers"
    /\ ReportBlockers > 0
    /\ exit_code = 1

\* C2: the first status document whose state is COMPLETE is the last one
\* polled and the one wait_for_completion returns: once it is there, it is
\* the value of status, the loop is left, and the status polls issued are
\* those up to it.
C2_FirstCompleteEndsPolling ==
    \A i \in DOMAIN polled :
        polled[i].status = "COMPLETE" =>
            /\ i = Len(polled)
            /\ status = polled[i]
            /\ Cardinality(StatusPolls) = i
            /\ pc \in {"get_report", "post_pr_comment", "done"}

\* a run whose second poll was COMPLETE and that went on to the report
C2_Witness ==
    /\ pc = "done"
    /\ Len(polled) = 2
    /\ polled[2].status = "COMPLETE"
    /\ Cardinality(ReportFetches) = 1

\* every status document polled so far names a state in progress, and every
\* status poll issued so far returned one
OnlyNonTerminalPolls ==
    /\ outputs # <<>>
    /\ Cardinality(StatusPolls) = Len(polled)
    /\ \A i \in DOMAIN polled : polled[i].status \notin {"COMPLETE", "FAILED", Missing}

\* C3: a run whose status polls all return, each with a state that is
\* neither COMPLETE nor FAILED, does not poll for ever: it leaves the loop,
\* and it leaves it by the TimeoutError raised once the time since polling
\* started exceeds the timeout, with exit code 5.
C3_TimeoutEndsPolling ==
    /\ (pc \in {"get_status", "sleep"}) ~> (pc = "done")
    /\ [](pc = "done" /\ OnlyNonTerminalPolls =>
            /\ exc.type = "TimeoutError"
            /\ exit_code = 5
            /\ now - start_time > self.timeout)

\* a run that timed out after two polls that found the analysis in progress
C3_Witness ==
    /\ pc = "done"
    /\ OnlyNonTerminalPolls
    /\ Len(polled) = 2
    /\ exit_code = 5

\* C4: a status poll that returns FAILED ends the polling, no report is
\* fetched, and run() returns 3, whatever error message the status document
\* carries.
C4_FailedExitsApiError ==
    (polled # <<>> /\ polled[Len(polled)].status = "FAILED") =>
        /\ pc = "done"
        /\ ReportFetches = {}
        /\ Cardinality(StatusPolls) = Len(polled)
        /\ exit_code = 3

\* C5: at each step of the analysis API, a response with status 401 makes
\* run() return 4 and one with 429 or any other status >= 400 makes it
\* return 3; a status below 400 raises none of api_request's status errors.
C5_HttpStatusDecidesExit ==
    /\ last_code = 401 => pc = "done" /\ exit_code = 4
    /\ (last_code >= 400 /\ last_code # 401) => pc = "done" /\ exit_code = 3
    /\ (last_code \in 1..399 /\ exc # NoException) =>
         /\ exc.msg # <<"Invalid API key">>
         /\ exc.msg # <<"Rate limit exceeded">>
         /\ exc.msg[1] # "API error: "

\* C6: without an API key (unset or empty) run() returns 4 and no request
\* is issued, to either service, whatever the other inputs are.
C6_NoKeyNoCall ==
    ~Truthy(env.PRODSENSOR_API_KEY) =>
        /\ calls = <<>>
        /\ pc \in {"run", "done"}
        /\ pc = "done" => exit_code = 4

\* a run with an empty key, a repository URL and a token, that returned 4
C6_Witness ==
    /\ pc = "done"
    /\ env.PRODSENSOR_API_KEY = ""
    /\ Truthy(env.INPUT_REPO_URL)
    /\ exit_code = 4

\* C7: with an API key and no INPUT_REPO_URL (unset or empty): if there is
\* no GITHUB_REPOSITORY either, run() returns 3 and issues no request; if
\* there is one, the URL is derived from it, and the run goes on to submit
\* that URL.
C7_RepoUrlDerivedOrExit3 ==
    (Truthy(env.PRODSENSOR_API_KEY) /\ ~Truthy(env.INPUT_REPO_URL)) =>
        IF ~Truthy(env.GITHUB_REPOSITORY)
        THEN /\ calls = <<>>
             /\ pc \in {"run", "done"}
             /\ pc = "done" => exit_code = 3
        ELSE /\ self.repo_url = "https://github.com/octo/app"
             /\ pc \notin {"run", "start_analysis"} =>
                  /\ calls # <<>>
                  /\ IsSubmit(calls[1])
                  /\ calls[1].json = "https://github.com/octo/app"

\* a run given an empty INPUT_REPO_URL that submitted the derived URL
C7_Witness ==
    /\ Truthy(env.PRODSENSOR_API_KEY)
    /\ env.INPUT_REPO_URL = ""
    /\ calls # <<>>
    /\ calls[1].json = "https://github.com/octo/app"
    /\ pc = "get_status"

\* the identifier the submission response carried: the value of run_id, or
\* else that of id
ReturnedId == IF Truthy(result.run_id) THEN result.run_id ELSE result.id

\* C8: at most one submission is made, it comes first, and every status
\* poll and the report fetch are keyed by the identifier its response
\* carried.
C8_OneSubmissionOneKey ==
    /\ Cardinality(Submits) <= 1
    /\ \A i \in StatusPolls \cup ReportFetches :
         /\ Submits = {1}
         /\ Truthy(ReturnedId) => calls[i].path[2] = ReturnedId

\* a run that polled twice and fetched the report under the value of id
C8_Witness ==
    /\ pc = "done"
    /\ result = [run_id |-> "", id |-> "run-2"]
    /\ Cardinality(StatusPolls) = 2
    /\ Cardinality(ReportFetches) = 1
    /\ calls[4].path = <<"/v1/runs/", "run-2", "/report.json">>

\* the exit code of the table of policies
TableExit(policy, v, blockers) ==
    CASE policy = "never" -> 0
      [] policy = "blockers" -> IF blockers > 0 THEN 1 ELSE 0
      [] OTHER -> CASE v = "PRODUCTION_READY" -> 0
                    [] v = "CONDITIONALLY_READY" -> 2
                    [] OTHER -> 1

\* C9: once the report is fetched and formatted, nothing that happens to the
\* comment raises out of post_pr_comment or changes the exit code: whether
\* it was posted, refused, lost to a network exception or not sent at all,
\* run() returns the code of the policy, the verdict and the blocker count.
C9_DeliveryNeverChangesExit ==
    (pc = "done" /\ delivery # "none") =>
        /\ exc = NoException
        /\ exit_code = TableExit(self.fail_on, report.verdict, ReportBlockers)

\* a run whose comment was lost to a network exception and that returned 2
C9_Witness ==
    /\ pc = "done"
    /\ delivery = "exception"
    /\ \E i \in DOMAIN calls : IsComment(calls[i])
    /\ exit_code = 2

\* C10: an exception ends the run: once one is caught, run() has returned
\* and no request follows it; and no request is ever one other than the
\* submission, a status poll, the report fetch or the comment (there is no
\* cancellation).
C10_ErrorsAreTerminal ==
    /\ [](exc # NoException => pc = "done")
    /\ [][exc # NoException => calls' = calls]_vars
    /\ [](\A i \in DOMAIN calls :
            \/ IsSubmit(calls[i])
            \/ IsStatusPoll(calls[i])
            \/ IsReportFetch(calls[i])
            \/ IsComment(calls[i]))

\* a run whose second status poll was throttled, and that ended there
C10_Witness ==
    /\ pc = "done"
    /\ exc.msg = <<"Rate limit exceeded">>
    /\ last_code = 429
    /\ Cardinality(StatusPolls) = 2
    /\ IsStatusPoll(calls[Len(calls)])

\* C11: the report is fetched at most once, as the request that follows the
\* status poll that returned COMPLETE, and under the key of that poll; there
\* is no report fetch in a run whose last status is not COMPLETE, that timed
\* out, or whose submission or poll raised.
C11_ReportOnlyAfterComplete ==
    /\ Cardinality(ReportFetches) <= 1
    /\ \A i \in ReportFetches :
         /\ i > 1
         /\ IsStatusPoll(calls[i - 1])
         /\ calls[i].path[2] = calls[i - 1].path[2]
         /\ polled # <<>>
         /\ polled[Len(polled)].status = "COMPLETE"
         /\ Cardinality(StatusPolls) = Len(polled)
    /\ (polled # <<>> /\ polled[Len(polled)].status # "COMPLETE") => ReportFetches = {}
    /\ exc.type = "TimeoutError" => ReportFetches = {}
    /\ (exc # NoException /\ Cardinality(StatusPolls) > Len(polled)) => ReportFetches = {}
    /\ (exc # NoException /\ StatusPolls = {}) => ReportFetches = {}

\* a run that fetched the report right after its third poll
C11_Witness ==
    /\ Cardinality(StatusPolls) = 3
    /\ ReportFetches = {5}
    /\ polled[3].status = "COMPLETE"
    /\ last_code = 200
    /\ pc = "done"

\* the three verdicts format_pr_comment knows, and the text it gives each
KnownVerdicts == {"PRODUCTION_READY", "NOT_PRODUCTION_READY", "CONDITIONALLY_READY"}
KnownVerdictTexts ==
    {"**PRODUCTION READY**", "**NOT PRODUCTION READY**", "**CONDITIONALLY READY**"}

\* C12: the comment names the verdict in one of three ways for the three
\* known verdicts, and gives any other verdict (UNKNOWN, missing) a text and
\* a badge of its own, that of none of the three.
C12_UnknownVerdictOwnTreatment ==
    (comment # NoComment) =>
        /\ report.verdict = "PRODUCTION_READY" =>
             comment.verdict_text = "**PRODUCTION READY**"
        /\ report.verdict = "NOT_PRODUCTION_READY" =>
             comment.verdict_text = "**NOT PRODUCTION READY**"
        /\ report.verdict = "CONDITIONALLY_READY" =>
             comment.verdict_text = "**CONDITIONALLY READY**"
        /\ report.verdict \notin KnownVerdicts =>
             /\ comment.verdict_text \notin KnownVerdictTexts
             /\ comment.verdict_emoji \notin
                  {":white_check_mark:", ":x:", ":warning:"}

\* the positions of the findings of the report whose severity is exactly sev
WithSeverity(sev) == {i \in DOMAIN report.findings : report.findings[i].severity = sev}

\* the position in the report of its k-th blocker
KthBlocker(k) ==
    CHOOSE i \in WithSeverity("Blocker") :
        Cardinality({j \in WithSeverity("Blocker") : j <= i}) = k

\* C13: the counts run() writes as blocker-count and major-count, and the
\* three counts of the summary table of the comment, are the numbers of
\* findings whose severity is exactly "Blocker", "Major", "Minor"; findings
\* of any other severity ("Info", "blocker") are in none of them, so the
\* three sum to at most the number of findings.
C13_CountsAreExactMatches ==
    /\ pc \in {"formatted", "done"} =>
         /\ blocker_count = Cardinality(WithSeverity("Blocker"))
         /\ major_count = Cardinality(WithSeverity("Major"))
    /\ pc = "formatted" =>
         /\ comment.blockers = Cardinality(WithSeverity("Blocker"))
         /\ comment.majors = Cardinality(WithSeverity("Major"))
         /\ comment.minors = Cardinality(WithSeverity("Minor"))
         /\ comment.blockers + comment.majors + comment.minors
              = Len(report.findings) - Cardinality(WithSeverity("Info"))
                                     - Cardinality(WithSeverity("blocker"))
         /\ comment.blockers + comment.majors + comment.minors <= Len(report.findings)

\* a formatted report with an Info finding and a finding "blocker" among
\* two blockers, counted as two blockers
C13_Witness ==
    /\ pc = "formatted"
    /\ WithSeverity("Info") # {}
    /\ WithSeverity("blocker") # {}
    /\ Len(report.findings) = 4
    /\ comment.blockers = 2
    /\ blocker_count = 2

\* C14: a comment on a report with n blockers lists min(n, 5) of them, the
\* first ones in the order of the report; the line of the remainder is
\* there iff n > 5 and then names n - 5; the section is there iff n > 0.
C14_FiveBlockersThenRemainder ==
    pc = "formatted" =>
        LET n == Cardinality(WithSeverity("Blocker")) IN
        /\ Len(comment.listed) = IF n < 5 THEN n ELSE 5
        /\ \A k \in DOMAIN comment.listed :
             comment.listed[k] = report.findings[KthBlocker(k)]
        /\ comment.has_more <=> n > 5
        /\ comment.has_more => comment.more = n - 5
        /\ comment.section <=> n > 0

\* a formatted report of seven blockers and two other findings: five
\* listed, "2 more"
C14_Witness ==
    /\ pc = "formatted"
    /\ Cardinality(WithSeverity("Blocker")) = 7
    /\ Len(report.findings) = 9
    /\ report.findings[1].severity # "Blocker"
    /\ Len(comment.listed) = 5
    /\ comment.has_more
    /\ comment.more = 2

\* the requests to the commenting API
Comments == {i \in DOMAIN calls : IsComment(calls[i])}

\* get_report returned: run() went on to line 282
ReportFetched == ReportFetches # {} /\ verdict # None

\* start_analysis raised: the submission is the only request and run() caught
\* its exception
SubmitRaised ==
    /\ Len(calls) = 1
    /\ IsSubmit(calls[1])
    /\ exc # NoException
    /\ exc.type # "TimeoutError"

\* C15: there is at most one request to the commenting API, and there is
\* one only if the report was fetched, comment-on-pr is true, the event is a
\* pull request whose file gives a PR number, and there is a token; a run
\* where the comment is disabled, that is no PR, or that has no token makes
\* no such request.
C15_CommentOnlyWhenAllHold ==
    /\ Cardinality(Comments) <= 1
    /\ Comments # {} =>
         /\ ReportFetched
         /\ \A i \in Comments : \E j \in ReportFetches : j < i
         /\ self.comment_on_pr
         /\ self.github_event_name \in {"pull_request", "pull_request_target"}
         /\ Truthy(pr_number)
         /\ Truthy(self.github_token)
    /\ delivery \in {"none", "disabled", "not a PR", "no token"} => Comments = {}

\* a run on a pull request whose comment was posted
C15_Witness ==
    /\ pc = "done"
    /\ Cardinality(Comments) = 1
    /\ delivery = "posted"
    /\ pr_number = "7"
    /\ self.github_event_name = "pull_request"

\* C16: between two status polls the loop sleeps poll_interval seconds, the
\* same at every turn, so that after k polls and their sleeps the elapsed
\* time is between k and k times the interval and its overshoot; a status
\* poll is issued only while the elapsed time does not exceed the timeout
\* (the clock stands at the time of the last poll until the next sleep);
\* and a run issues at most timeout \div 5 + 1 status polls.
C16_FixedIntervalBoundsPolls ==
    /\ poll_interval = 5
    /\ Cardinality(StatusPolls) <= (self.timeout \div 5) + 1
    /\ pc = "get_status" =>
         /\ now - start_time >= poll_interval * Cardinality(StatusPolls)
         /\ now - start_time <= (poll_interval + MaxDelay) * Cardinality(StatusPolls)
    /\ (/\ pc # "get_status"
        /\ exc.type # "TimeoutError"
        /\ calls # <<>>
        /\ IsStatusPoll(calls[Len(calls)])) =>
         now - start_time <= self.timeout

\* a run that polled as often as its timeout allows and then timed out
C16_Witness ==
    /\ pc = "done"
    /\ self.timeout = MaxTimeout
    /\ Cardinality(StatusPolls) = (self.timeout \div 5) + 1
    /\ exc.type = "TimeoutError"
    /\ IsStatusPoll(calls[Len(calls)])

\* C17: every run() returns, and what it returns is one of the six exit
\* codes: the polling loop ends and every exception is caught in run().
C17_RunTerminatesWithExitCode ==
    /\ <>(pc = "done")
    /\ [](pc = "done" <=> exit_code \in 0..5)
    /\ [](exit_code \in {NoExit} \cup 0..5)

\* a run that caught the KeyError of a status document without status and
\* returned 3
C17_Witness ==
    /\ pc = "done"
    /\ exc.msg = <<"'status'">>
    /\ polled # <<>>
    /\ polled[Len(polled)].status = Missing
    /\ exit_code = EXIT_API_ERROR

\* C18: run() returns 0, 1 or 2 only when the submission succeeded, the last
\* status polled was COMPLETE and the report was fetched; when the inputs
\* are invalid or anything raised, it returns 3, 4 or 5, under the policy
\* `never` as under the others.
C18_SuccessCodesNeedReport ==
    pc = "done" =>
        /\ exit_code \in {0, 1, 2} =>
             /\ Submits = {1}
             /\ ~SubmitRaised
             /\ polled # <<>>
             /\ polled[Len(polled)].status = "COMPLETE"
             /\ ReportFetched
             /\ exc = NoException
        /\ (ValidateInputs(self) # NoExit \/ exc # NoException) =>
             exit_code \in {3, 4, 5}

\* a run under the policy `never` whose report fetch was refused and that
\* returned 4
C18_Witness ==
    /\ pc = "done"
    /\ self.fail_on = "never"
    /\ ReportFetches # {}
    /\ last_code = 401
    /\ exc # NoException
    /\ exit_code = EXIT_AUTH_ERROR

\* C19: every status poll and every report fetch is keyed by an identifier
\* the submission response carried under run_id or id; a response with
\* neither is followed by no such request.
C19_PollsKeyedByCarriedId ==
    \A i \in StatusPolls \cup ReportFetches :
        /\ calls[i].path[2] # None
        /\ Truthy(result.run_id) \/ Truthy(result.id)
        /\ calls[i].path[2] \in {result.run_id, result.id}

\* the names of the outputs, in the order run() writes them
OutputOrder ==
    <<"run-id", "verdict", "score", "report-url", "blocker-count", "major-count">>

\* C20: the outputs are written in the order of the run: run-id once the
\* submission has returned and before the first status poll, and it stays
\* written whatever comes later; the five outputs of the report once the
\* report has been fetched, and before a comment is sent; and none when the
\* validation or the submission fails.
C20_OutputsInLifecycleOrder ==
    /\ [](/\ Len(outputs) \in {0, 1, Len(OutputOrder)}
          /\ outputs = SubSeq(OutputOrder, 1, Len(outputs))
          /\ outputs # <<>> <=> (Submits # {} /\ ~SubmitRaised /\ pc # "start_analysis")
          /\ StatusPolls # {} => outputs # <<>>
          /\ Len(outputs) > 1 <=> ReportFetched
          /\ Comments # {} => Len(outputs) = Len(OutputOrder)
          /\ (pc = "done" /\ (ValidateInputs(self) # NoExit \/ SubmitRaised)) =>
                outputs = <<>>)
    /\ [][Len(outputs') >= Len(outputs)
          /\ SubSeq(outputs', 1, Len(outputs)) = outputs]_vars

\* a run that wrote run-id, then timed out, and still has run-id as its
\* only output
C20_Witness ==
    /\ pc = "done"
    /\ exc.type = "TimeoutError"
    /\ outputs = <<"run-id">>
    /\ Cardinality(StatusPolls) = 1
    /\ verdict = None

====
